---- MODULE Spec2Model ----
\* A model of the job-scraper service: the BrowserManager (one browser
\* process, a pool of pages keyed by task id), PuppeteerService.executeTask
\* and the scrapeRedditJobListings task function.  Asynchronous methods are
\* cut at their awaits: one action per synchronous segment, so that calls
\* interleave exactly where the JavaScript event loop lets them.
EXTENDS Integers, Sequences, FiniteSets, TLC

\* ------------------------------------------------------------------ bounds
NumCalls == 2
NumIds == 2
MaxPages == 2
MaxProcs == 2
HistLen == 5
MaxComments == 2
ExtractLen == 5

Calls == 1..NumCalls
AllIds == <<"k1", "k2", "k3", "k4">>
TaskIds == {AllIds[n] : n \in 1..NumIds}
Pages == 1..MaxPages
Procs == 1..MaxProcs

\* The controller's target document and the executor url it passes.
TargetUrl == "https://www.reddit.com/r/PinoyProgrammer/comments/1j0m8iv"
NoUrl == ""

VARIABLES
    browser,      \* BrowserManager.browser: 0 is null, else the process
    pagePool,     \* BrowserManager.pagePool: the Map's entry list, in insertion order
    procState,    \* each browser process: "none", "live" or "closed"
    pageState,    \* each page: "none", "open" or "closed"
    pageProc,     \* the process a page was opened in (0 before it is opened)
    pageTask,     \* the task id a page was opened for ("" before it is opened)
    calls,        \* the call frames: one per call slot
    held,         \* history: per id, the page the last getPage returned since the last release
    \* scrapeRedditJobListings, one invocation of the task function:
    tpc,                    \* where the task function is suspended
    taskUrl,                \* options.url
    i,                      \* the for loop's counter
    previousCommentCount,
    sameCountIterations,
    currentCommentCount,
    hist,                   \* history: the last HistLen counts the loop read
    exit,                   \* history: how the loop was left: "none", "stable", "ceiling"
    altScrolls,             \* history: the iterations that scrolled to 80% of the height
    failedAt,               \* history: the operation whose failure was caught
    comments,               \* the marker elements of the document when extraction ran
    taskResult,             \* the value the task function returned
    taskError               \* the error the task function threw

mgrVars == <<browser, pagePool, procState, pageState, pageProc, pageTask, calls, held>>
taskVars == <<tpc, taskUrl, i, previousCommentCount, sameCountIterations,
              currentCommentCount, hist, exit, altScrolls, failedAt, comments,
              taskResult, taskError>>
vars == <<mgrVars, taskVars>>

\* ------------------------------------------------------------------ errors
\* src/src/core/errors.ts: an error is its class name and its context map.
EmptyCtx == [k \in {} |-> ""]
NoErr == [name |-> "", ctx |-> EmptyCtx]
RawError == [name |-> "Error", ctx |-> EmptyCtx]

TypedNames == {"PuppeteerError", "BrowserError", "NavigationError",
               "ScrapingError", "ValidationError"}

IsPuppeteerError(e) == e.name \in TypedNames

BrowserError(ctx) == [name |-> "BrowserError", ctx |-> ctx]
NavigationError(ctx) == [name |-> "NavigationError", ctx |-> ctx]
ScrapingError(ctx) == [name |-> "ScrapingError", ctx |-> ctx]
ValidationError(ctx) == [name |-> "ValidationError", ctx |-> ctx]

\* enrich: { ...this.context, ...additionalContext }: the added keys win.
Enrich(e, additionalContext) ==
    [e EXCEPT !.ctx = additionalContext @@ e.ctx]

\* toPuppeteerError: a typed error is enriched, anything else becomes the base kind.
ToPuppeteerErrorRewraps(e, context) ==
    [name |-> "PuppeteerError",
     ctx |-> context @@ ("originalError" :> e.name) @@ ("stack" :> "stack")]
ToPuppeteerError(e, context) ==
    IF IsPuppeteerError(e)
    THEN Enrich(e, context)
    ELSE [name |-> "PuppeteerError",
          ctx |-> context @@ ("originalError" :> e.name) @@ ("stack" :> "stack")]

\* ------------------------------------------------------------------ the pool (a JS Map)
\* A Map keeps its entries in insertion order: a new key is appended, an
\* existing key keeps its place, and a running iterator (a position in the
\* entry list) steps over deleted entries and reaches entries added meanwhile.
PoolIndex(pool, k) == CHOOSE n \in 1..Len(pool) : pool[n].key = k
PoolHasIn(pool, k) == \E n \in 1..Len(pool) : pool[n].key = k
PoolHas(k) == PoolHasIn(pagePool, k)
PoolGet(k) == pagePool[PoolIndex(pagePool, k)].page
PoolSet(pool, k, p) ==
    IF PoolHasIn(pool, k)
    THEN [pool EXCEPT ![PoolIndex(pool, k)].page = p]
    ELSE Append(pool, [key |-> k, page |-> p])
PoolDeleteAll(pool, k) == <<>>
PoolDelete(pool, k) == SelectSeq(pool, LAMBDA e : e.key # k)
PoolSizeOf(pool) == Len(pool)
PoolSize == PoolSizeOf(pagePool)
\* the position of k's entry, 0 when k is not mapped
PoolPos(k) == IF PoolHas(k) THEN PoolIndex(pagePool, k) ELSE 0
\* the iterator's next entry after position n (0 when the iteration is over)
NextEntry(pool, n) == IF n < Len(pool) THEN n + 1 ELSE 0

FreshPage == CHOOSE p \in Pages : pageState[p] = "none" /\ \A q \in 1..(p - 1) : pageState[q] # "none"
FreshProc == CHOOSE q \in Procs : procState[q] = "none" /\ \A r \in 1..(q - 1) : procState[r] # "none"
HasFreshPage == \E p \in Pages : pageState[p] = "none"
HasFreshProc == \E q \in Procs : procState[q] = "none"

LivePages(k) == {p \in Pages : pageTask[p] = k /\ pageState[p] = "open"}
LiveProcs == {q \in Procs : procState[q] = "live"}

\* ------------------------------------------------------------------ call frames
\* One frame per call slot: the method running in it, the await it is suspended
\* at, and its locals.
\*   op : "idle", "initBrowser", "getPage", "releasePage", "closeBrowser", "executeTask"
\*   pc : "idle", "launching" (await puppeteer.launch), "newPage" (await browser.newPage),
\*        "closing" (releasePage: await page.close), "cb_page" (closeBrowser: await
\*        page.close), "cb_browser" (await this.browser.close), "goto" (await page.goto),
\*        "task" (await taskFn), "done"
NoOpts == [url |-> NoUrl, releasePage |-> FALSE]
NoResult == [success |-> FALSE, hasData |-> FALSE, data |-> <<>>, error |-> ""]

NoPrimary == [out |-> "none", err |-> NoErr, result |-> NoResult]

IdleFrame ==
    [op |-> "idle", pc |-> "idle", id |-> "", b |-> 0, p |-> 0, idx |-> 0,
     ret |-> 0, err |-> NoErr,
     h0 |-> 0, n0 |-> 0, n1 |-> 0,             \* history: held page and pool size at the call, size at return
     hadBrowser |-> FALSE,                      \* history: closeBrowser found a process
     pageCloseFailed |-> FALSE, procCloseFailed |-> FALSE,
     fn |-> "", url |-> NoUrl, opts |-> NoOpts, \* executeTask's arguments
     page |-> 0,                                \* executeTask's local page (0 is null)
     out |-> "none", result |-> NoResult,       \* executeTask's outcome: "value" or "error"
     rel |-> 0,                                 \* history: releasePage invocations
     task |-> "notrun",                         \* history: taskFn "notrun", "running", "finished"
     relAfterTask |-> TRUE,                     \* history: no release began while taskFn ran
     primary |-> NoPrimary,                     \* history: the outcome when finally was entered
     thrown |-> NoErr,                          \* history: the error executeTask's catch received
     nav |-> "none",                            \* history: executeTask's page.goto: "ok", "failed"
     again |-> FALSE,                           \* history: closeBrowser called right after closeBrowser
     b0 |-> 0,                                  \* history: the handle when that second call began
     pages0 |-> {},                             \* history: the pooled pages when closeBrowser began
     tried |-> {},                              \* history: the pages closeBrowser tried to close
     shared |-> FALSE]                          \* history: executeTask began while its id was in flight

\* a new call takes the first slot that holds no running call
Vacant(c) == calls[c].pc \in {"idle", "done"}
Free(c) == Vacant(c) /\ \A d \in 1..(c - 1) : ~Vacant(d)
Quiescent == \A c \in Calls : Vacant(c)

\* ------------------------------------------------------------------ executeTask: after the awaits
\* src/src/core/puppeteer-service.ts:21-66.  These are the synchronous
\* continuations; the actions below run them when an await resolves.
\* a finished call keeps its outcome; its locals are gone
Finished(f) == [f EXCEPT !.pc = "done", !.b = 0, !.idx = 0]

ExecSettle(f) == Finished(f)

\* releasePage(id), lines 81-96: the synchronous part up to `await page.close()`.
ReleaseReturn(f) ==
    IF f.op = "executeTask" THEN ExecSettle(f) ELSE Finished(f)

\* catch (error) { logger.error(...) }: the failure of the close is logged, not raised
ReleaseFailedRaises(f) ==
    [ReleaseReturn(f) EXCEPT !.pageCloseFailed = TRUE, !.out = "error", !.err = RawError]
ReleaseFailed(f) ==
    [ReleaseReturn(f) EXCEPT !.pageCloseFailed = TRUE]

ReleaseBeginRaises(f) ==
    IF PoolHas(f.id)
    THEN [f EXCEPT !.pc = "closing", !.p = PoolGet(f.id), !.rel = @ + 1]
    ELSE ReleaseReturn([f EXCEPT !.rel = @ + 1, !.err = RawError])
ReleaseBegin(f) ==
    IF PoolHas(f.id)
    THEN [f EXCEPT !.pc = "closing", !.p = PoolGet(f.id), !.rel = @ + 1]
    ELSE ReleaseReturn([f EXCEPT !.rel = @ + 1])

\* finally { if (options?.releasePage && page) await releasePage(taskId) }
ReleaseWantedOnSuccess(f) == f.opts.releasePage /\ f.page # 0 /\ f.out = "value"
ReleaseWanted(f) == f.opts.releasePage /\ f.page # 0

ExecFinally(f) ==
    LET g == [f EXCEPT !.primary = [out |-> f.out, err |-> f.err, result |-> f.result]]
    IN  IF ReleaseWanted(g)
        THEN ReleaseBegin([g EXCEPT !.relAfterTask = (g.task # "running")])
        ELSE ExecSettle(g)

TaskContext(f) == ("taskId" :> f.id) @@ ("url" :> f.url)

\* catch (error) { throw toPuppeteerError(error, { taskId, url }) }
ExecCatch(f, e) ==
    ExecFinally([f EXCEPT !.out = "error", !.thrown = e,
                          !.err = ToPuppeteerError(e, TaskContext(f))])

\* catch (navError) { throw new NavigationError(..., { taskId, url, originalError: navError }) }
NavigationFailedRaw(f) == RawError
NavigationFailed(f) ==
    NavigationError(TaskContext(f) @@ ("originalError" :> "Error"))

\* return result
ExecReturn(f, r) == ExecFinally([f EXCEPT !.out = "value", !.result = r])

\* page = await getPage(taskId); if (url) await page.goto(url); await taskFn(page, options)
ExecAfterGetPage(f, p, e) ==
    IF e.name # ""
    THEN ExecCatch(f, e)
    ELSE [f EXCEPT !.page = p,
                   !.pc = IF f.url # NoUrl THEN "goto" ELSE "task",
                   !.task = IF f.url # NoUrl THEN "notrun" ELSE "running"]

\* ------------------------------------------------------------------ BrowserManager: after the awaits
\* getPage returns a page or throws (lines 55-76); inside executeTask the
\* caller continues.
GetPageReturn(f, p, e, size) ==
    IF f.op = "executeTask"
    THEN ExecAfterGetPage(f, p, e)
    ELSE Finished([f EXCEPT !.ret = p, !.err = e, !.n1 = size])

\* catch (error) { throw new BrowserError('Failed to get page', {taskId, poolSize, originalError}) }
GetPageThrowUnwrapped(f, e) == GetPageReturn(f, 0, e, PoolSize)
GetPageThrow(f, e) ==
    GetPageReturn(f, 0,
        BrowserError(("taskId" :> f.id) @@ ("poolSize" :> PoolSize) @@ ("originalError" :> e.name)),
        PoolSize)

\* initBrowser returns this.browser or throws (lines 33-50); inside getPage
\* the caller goes on to `await browser.newPage()`.
InitBrowserReturn(f, b, e) ==
    IF f.op = "initBrowser"
    THEN Finished([f EXCEPT !.ret = b, !.err = e])
    ELSE IF e.name # ""
         THEN GetPageThrow(f, e)
         ELSE [f EXCEPT !.pc = "newPage", !.b = b]

\* if (!this.browser) { this.browser = await puppeteer.launch(...) } return this.browser
NeedsLaunch(b) == b = 0

InitBrowserBegin(f) ==
    IF NeedsLaunch(browser)
    THEN [f EXCEPT !.pc = "launching"]
    ELSE InitBrowserReturn(f, browser, NoErr)

\* if (this.pagePool.has(id)) return this.pagePool.get(id)
ReusesPageNever(k) == FALSE
ReusesPage(k) == PoolHas(k)

GetPageBegin(f) ==
    IF ReusesPage(f.id)
    THEN GetPageReturn(f, PoolGet(f.id), NoErr, PoolSize)
    ELSE InitBrowserBegin(f)

\* history: a release of k forgets the page held for k; a page handed out is remembered
HeldAfter(f, nf, got) ==
    IF nf.rel > f.rel
    THEN [held EXCEPT ![nf.id] = 0]
    ELSE IF got # 0 THEN [held EXCEPT ![nf.id] = got] ELSE held

GotPage(f, nf) ==
    IF f.op = "getPage" /\ nf.pc = "done" THEN nf.ret
    ELSE IF f.op = "executeTask" /\ f.page = 0 THEN nf.page
    ELSE 0

\* ------------------------------------------------------------------ BrowserManager: the actions
\* Every action below leaves the task function's variables alone; the
\* specifications say so once, in their next-state relations.
\* history: no call is running and the latest call of every slot that ran
\* one was a closeBrowser
AfterCloseBrowser ==
    /\ Quiescent
    /\ \E d \in Calls : calls[d].op = "closeBrowser"
    /\ \A d \in Calls : calls[d].op \in {"idle", "closeBrowser"}

Begin(c, op, k) ==
    LET again == op = "closeBrowser" /\ AfterCloseBrowser
    IN  [IdleFrame EXCEPT !.op = op, !.id = k,
                          !.h0 = IF op = "getPage" THEN held[k] ELSE 0,
                          !.n0 = IF op = "getPage" \/ again THEN PoolSize ELSE 0,
                          !.again = again,
                          !.b0 = IF again THEN browser ELSE 0]

\* the running closeBrowser iterators after the entry at position n is deleted
\* (n = 0: nothing was deleted)
AfterDelete(cs, n) ==
    [c \in Calls |->
        IF n # 0 /\ cs[c].pc = "cb_page" /\ cs[c].idx >= n
        THEN [cs[c] EXCEPT !.idx = @ - 1]
        ELSE cs[c]]

\* frame f of slot c runs its continuation and becomes nf
Step(c, f, nf) ==
    /\ calls' = [calls EXCEPT ![c] = nf]
    /\ held' = HeldAfter(f, nf, GotPage(f, nf))

Resumed(c, nf) == Step(c, calls[c], nf)

\* initBrowser(), called directly.
InitBrowser(c) ==
    /\ UNCHANGED taskVars
    /\ Free(c)
    /\ Step(c, Begin(c, "initBrowser", ""), InitBrowserBegin(Begin(c, "initBrowser", "")))
    /\ UNCHANGED <<browser, pagePool, procState, pageState, pageProc, pageTask>>

\* `await puppeteer.launch(...)` resolves or rejects (lines 36-47).
InitBrowserLaunched(c) ==
    /\ UNCHANGED taskVars
    /\ calls[c].pc = "launching"
    /\ \/ /\ HasFreshProc
          /\ procState' = [procState EXCEPT ![FreshProc] = "live"]
          /\ browser' = FreshProc
          /\ Resumed(c, InitBrowserReturn(calls[c], FreshProc, NoErr))
       \/ /\ UNCHANGED <<procState, browser>>
          /\ Resumed(c, InitBrowserReturn(calls[c], 0,
                        BrowserError("originalError" :> "Error")))
    /\ UNCHANGED <<pagePool, pageState, pageProc, pageTask>>

\* getPage(id), up to its first await (lines 55-62).
GetPage(c, k) ==
    /\ UNCHANGED taskVars
    /\ Free(c)
    /\ Step(c, Begin(c, "getPage", k), GetPageBegin(Begin(c, "getPage", k)))
    /\ UNCHANGED <<browser, pagePool, procState, pageState, pageProc, pageTask>>

\* `await browser.newPage()` resolves or rejects; on success the page is
\* registered and returned (lines 63-68).
GetPageNewPage(c) ==
    /\ UNCHANGED taskVars
    /\ calls[c].pc = "newPage"
    /\ \/ /\ HasFreshPage
          /\ procState[calls[c].b] = "live"
          /\ pageState' = [pageState EXCEPT ![FreshPage] = "open"]
          /\ pageProc' = [pageProc EXCEPT ![FreshPage] = calls[c].b]
          /\ pageTask' = [pageTask EXCEPT ![FreshPage] = calls[c].id]
          /\ pagePool' = PoolSet(pagePool, calls[c].id, FreshPage)
          /\ Resumed(c, GetPageReturn(calls[c], FreshPage, NoErr,
                                   PoolSizeOf(PoolSet(pagePool, calls[c].id, FreshPage))))
       \/ /\ UNCHANGED <<pageState, pageProc, pageTask, pagePool>>
          /\ Resumed(c, GetPageThrow(calls[c], RawError))
    /\ UNCHANGED <<browser, procState>>

\* releasePage(id), up to `await page.close()` (lines 81-85).
ReleasePage(c, k) ==
    /\ UNCHANGED taskVars
    /\ Free(c)
    /\ Step(c, Begin(c, "releasePage", k), ReleaseBegin(Begin(c, "releasePage", k)))
    /\ UNCHANGED <<browser, pagePool, procState, pageState, pageProc, pageTask>>

\* `await page.close()` resolves: the mapping is deleted; or it rejects: the
\* failure is logged and the mapping stays (lines 85-95).
ReleasePageClosed(c) ==
    /\ UNCHANGED taskVars
    /\ calls[c].pc = "closing"
    /\ \/ /\ pageState' = [pageState EXCEPT ![calls[c].p] = "closed"]
          /\ pagePool' = PoolDelete(pagePool, calls[c].id)
          /\ calls' = AfterDelete([calls EXCEPT ![c] = ReleaseReturn(calls[c])],
                                  PoolPos(calls[c].id))
          /\ held' = held
       \/ /\ UNCHANGED <<pageState, pagePool>>
          /\ Resumed(c, ReleaseFailed(calls[c]))
    /\ UNCHANGED <<browser, procState, pageProc, pageTask>>

\* closeBrowser: the for-of loop's next entry, or `await this.browser.close()`
\* once the iterator is exhausted (lines 105-115).  Reading this.browser when
\* it is null raises a TypeError that the outer catch logs.
CloseBrowserNext(f, pool) ==
    LET n == NextEntry(pool, f.idx)
    IN  IF n # 0
        THEN [f EXCEPT !.pc = "cb_page", !.idx = n, !.id = pool[n].key, !.p = pool[n].page]
        ELSE IF browser = 0
             THEN Finished([f EXCEPT !.id = ""])
             ELSE [f EXCEPT !.pc = "cb_browser", !.b = browser, !.id = "", !.p = 0, !.idx = 0]

\* closeBrowser(), up to its first await (lines 101-107).
CloseBrowser(c) ==
    /\ UNCHANGED taskVars
    /\ Free(c)
    /\ calls' = [calls EXCEPT ![c] =
            IF browser = 0
            THEN Finished(Begin(c, "closeBrowser", ""))
            ELSE CloseBrowserNext([Begin(c, "closeBrowser", "") EXCEPT
                                        !.hadBrowser = TRUE,
                                        !.pages0 = {pagePool[n].page : n \in 1..Len(pagePool)}],
                                  pagePool)]
    /\ held' = IF browser = 0 THEN held ELSE [k \in TaskIds |-> 0]
    /\ UNCHANGED <<browser, pagePool, procState, pageState, pageProc, pageTask>>

\* closeBrowser: `await page.close()` of the current entry resolves (the entry
\* is deleted) or rejects (logged, the entry stays); then the loop goes on.
CloseBrowserPageClosed(c) ==
    /\ UNCHANGED taskVars
    /\ calls[c].pc = "cb_page"
    /\ \/ /\ pageState' = [pageState EXCEPT ![calls[c].p] = "closed"]
          /\ pagePool' = PoolDelete(pagePool, calls[c].id)
          /\ calls' = [AfterDelete(calls, PoolPos(calls[c].id)) EXCEPT ![c] =
                CloseBrowserNext([AfterDelete(calls, PoolPos(calls[c].id))[c] EXCEPT
                                        !.tried = @ \cup {calls[c].p}],
                                 PoolDelete(pagePool, calls[c].id))]
       \/ /\ UNCHANGED <<pageState, pagePool>>
          /\ calls' = [calls EXCEPT ![c] =
                CloseBrowserNext([calls[c] EXCEPT !.pageCloseFailed = TRUE,
                                                  !.tried = @ \cup {calls[c].p}], pagePool)]
    /\ UNCHANGED <<browser, procState, pageProc, pageTask, held>>

\* closeBrowser: `await this.browser.close()` resolves (the process and its
\* pages are gone, this.browser = null) or rejects (logged) (lines 115-125).
CloseBrowserClosed(c) ==
    /\ UNCHANGED taskVars
    /\ calls[c].pc = "cb_browser"
    /\ \/ /\ procState' = [procState EXCEPT ![calls[c].b] = "closed"]
          /\ pageState' = [p \in Pages |->
                IF pageProc[p] = calls[c].b /\ pageState[p] = "open"
                THEN "closed" ELSE pageState[p]]
          /\ browser' = 0
          /\ calls' = [calls EXCEPT ![c] = Finished(calls[c])]
       \/ /\ UNCHANGED <<procState, pageState, browser>>
          /\ calls' = [calls EXCEPT ![c] = Finished([calls[c] EXCEPT !.procCloseFailed = TRUE])]
    /\ UNCHANGED <<pagePool, pageProc, pageTask, held>>

\* ------------------------------------------------------------------ scrapeRedditJobListings
\* src/src/services/reddit-tasks.ts:20-221.
maxScrolls == 15
StableThreshold == 3
MinParagraphs == 3
AltEvery == 3

\* the counts `querySelectorAll(marker).length` may read
CountValues == {0, 5, 8, 12}

\* A marker element of the document (a node matching
\* div[id$="-comment-rtjson-content"]).  Its native id is prefix \o body \o
\* "-comment-rtjson-content", the body written as a sequence of tokens; its
\* <p> children; the author and time of the enclosing comment ("" when the
\* sibling element is missing).
AlnumTokens == {"abc", "def", "comment", "0", "1"}
IdSuffix == <<"-", "comment", "-", "rtjson", "-", "content">>

Elements ==
    { [prefix |-> "t1_", body |-> <<"abc">>, paragraphs |-> <<"a1", "a2", "a3">>,
       author |-> "alice", time |-> "2 days ago"],
      [prefix |-> "t1_", body |-> <<"def">>, paragraphs |-> <<"b1", "b2">>,
       author |-> "bob", time |-> ""],
      [prefix |-> "", body |-> <<>>, paragraphs |-> <<"c1", "c2", "c3", "c4">>,
       author |-> "", time |-> ""] }

\* further elements: ids the pattern rejects or that look like a synthetic id
OddElements ==
    { [prefix |-> "t1_", body |-> <<"comment", "-", "1">>, paragraphs |-> <<"d1", "d2", "d3">>,
       author |-> "carol", time |-> "1 day ago"],
      [prefix |-> "t1_", body |-> <<"comment", "1">>, paragraphs |-> <<"e1", "e2", "e3">>,
       author |-> "dave", time |-> ""],
      [prefix |-> "", body |-> <<"abc">>, paragraphs |-> <<"f1">>,
       author |-> "", time |-> ""] }

Documents == UNION {[1..n -> Elements] : n \in 0..MaxComments}
LongDocuments == UNION {[1..n -> Elements \cup OddElements] : n \in 0..ExtractLen}

Location == "https://www.reddit.com/r/PinoyProgrammer/comments/1j0m8iv/who_is_hiring_march_2025/"

RECURSIVE AlnumPrefix(_)
\* [a-zA-Z0-9]+ : the longest run of alphanumeric tokens at the head of ts
AlnumPrefix(ts) ==
    IF ts = <<>> \/ Head(ts) \notin AlnumTokens THEN <<>>
    ELSE <<Head(ts)>> \o AlnumPrefix(Tail(ts))

\* what follows that run in the native id
AfterGroup(el) ==
    SubSeq(el.body, Len(AlnumPrefix(el.body)) + 1, Len(el.body)) \o IdSuffix

\* comment.id.match(/t1_([a-zA-Z0-9]+)-comment/)
IdMatches(el) ==
    /\ el.prefix = "t1_"
    /\ AlnumPrefix(el.body) # <<>>
    /\ SubSeq(AfterGroup(el), 1, 2) = <<"-", "comment">>
\* const id = idMatch ? idMatch[1] : `comment-${index}`  (index counts from 0)
DerivedIdFixedFallback(el, index) ==
    IF IdMatches(el) THEN AlnumPrefix(el.body) ELSE <<"comment", "-", "0">>
DerivedId(el, index) ==
    IF IdMatches(el) THEN AlnumPrefix(el.body) ELSE <<"comment", "-", ToString(index)>>

\* if (paragraphs.length < 3) return
TooShortAtMost(el) == Len(el.paragraphs) <= MinParagraphs
TooShort(el) == Len(el.paragraphs) < MinParagraphs

RECURSIVE JoinParagraphs(_)
\* paragraphs.forEach(p => { content += p.textContent?.trim() + '\n' })
JoinParagraphs(ps) ==
    IF ps = <<>> THEN <<>> ELSE <<Head(ps), "\n">> \o JoinParagraphs(Tail(ps))

Listing(el, index) ==
    [id |-> DerivedId(el, index),
     author |-> IF el.author = "" THEN "Unknown" ELSE el.author,
     content |-> JoinParagraphs(el.paragraphs),
     postedAt |-> el.time,
     url |-> <<Location, "?comment=">> \o DerivedId(el, index)]

RECURSIVE ExtractFrom(_, _)
\* Array.from(comments).forEach((comment, index) => { ... listings.push(...) })
ExtractFrom(doc, n) ==
    IF n > Len(doc) THEN <<>>
    ELSE (IF TooShort(doc[n]) THEN <<>> ELSE <<Listing(doc[n], n - 1)>>)
         \o ExtractFrom(doc, n + 1)
ExtractListings(doc) == ExtractFrom(doc, 1)

\* the three ways the task function ends
ScrapeMissingUrl ==
    [success |-> FALSE, hasData |-> FALSE, data |-> <<>>, error |-> "Reddit URL is required"]
ScrapeSuccess(listings) ==
    [success |-> TRUE, hasData |-> TRUE, data |-> listings, error |-> ""]
\* throw new ScrapingError('Failed to scrape Reddit job listings', { url, originalError: error })
ScrapeFailure(url, cause) ==
    ScrapingError(("url" :> url) @@ ("originalError" :> cause))

\* for (let i = 0; i < maxScrolls; i++)
LoopContinuesAlways(n) == TRUE
LoopContinuesOneLess(n) == n < maxScrolls - 1
LoopContinues(n) == n < maxScrolls

\* if (sameCountIterations >= 3) break   (after the increment)
IsStableAfterTwo(same) == same >= StableThreshold - 1
IsStable(same) == same >= StableThreshold

\* lines 112-121: the stability counter and the recorded count after a decision
NextSameNoReset(cur, prev, same) == IF cur = prev THEN same + 1 ELSE same
NextSame(cur, prev, same) == IF cur = prev THEN same + 1 ELSE 0
NextPrevious(cur, prev) == IF cur = prev THEN prev ELSE cur

\* if (i % 3 === 2)
IsAltIterationOffByOne(n) == n % AltEvery = 0
IsAltIteration(n) == n % AltEvery = AltEvery - 1

Remember(h, n) == IF Len(h) < HistLen THEN Append(h, n) ELSE Append(Tail(h), n)

\* the loop head, reached from the wait, from the stability decision or from
\* the 80% scroll: the next iteration starts, or the loop is left at the ceiling
LoopHead(n) ==
    /\ i' = n
    /\ IF LoopContinues(n)
       THEN tpc' = "scroll" /\ exit' = exit
       ELSE tpc' = "content" /\ exit' = "ceiling"

\* a page operation failed: the catch at the task function's boundary (204-219)
CaughtRetriesWait(op) ==
    /\ tpc' = IF op = "waitForSelector" THEN "wait" ELSE "failed"
    /\ failedAt' = op
    /\ taskError' = ScrapeFailure(taskUrl, "Error")
    /\ UNCHANGED <<taskUrl, i, previousCommentCount, sameCountIterations,
                   currentCommentCount, hist, exit, altScrolls, comments, taskResult>>
Caught(op) ==
    /\ tpc' = "failed"
    /\ failedAt' = op
    /\ taskError' = ScrapeFailure(taskUrl, "Error")
    /\ UNCHANGED <<taskUrl, i, previousCommentCount, sameCountIterations,
                   currentCommentCount, hist, exit, altScrolls, comments, taskResult>>

\* lines 26-42: the input check, then `await page.goto(url, ...)` is issued
TaskStart ==
    /\ tpc = "start"
    /\ UNCHANGED mgrVars
    /\ IF taskUrl = NoUrl
       THEN tpc' = "done" /\ taskResult' = ScrapeMissingUrl
       ELSE tpc' = "goto" /\ taskResult' = taskResult
    /\ UNCHANGED <<taskUrl, i, previousCommentCount, sameCountIterations,
                   currentCommentCount, hist, exit, altScrolls, failedAt, comments, taskError>>

\* `await page.goto` resolves or rejects
TaskGoto ==
    /\ tpc = "goto"
    /\ UNCHANGED mgrVars
    /\ \/ /\ tpc' = "cookie"
          /\ UNCHANGED <<taskUrl, i, previousCommentCount, sameCountIterations,
                         currentCommentCount, hist, exit, altScrolls, failedAt, comments,
                         taskResult, taskError>>
       \/ Caught("goto")

\* lines 47-55: the cookie dialog; whatever happens in it is swallowed
TaskCookie ==
    /\ tpc = "cookie"
    /\ UNCHANGED mgrVars
    /\ tpc' = "wait"
    /\ UNCHANGED <<taskUrl, i, previousCommentCount, sameCountIterations,
                   currentCommentCount, hist, exit, altScrolls, failedAt, comments,
                   taskResult, taskError>>

\* lines 58-69: `await page.waitForSelector(marker, {visible})` resolves and
\* the loop is entered, or it times out
TaskWait ==
    /\ tpc = "wait"
    /\ UNCHANGED mgrVars
    /\ \/ /\ previousCommentCount' = 0
          /\ sameCountIterations' = 0
          /\ LoopHead(0)
          /\ UNCHANGED <<taskUrl, currentCommentCount, hist, altScrolls, failedAt,
                         comments, taskResult, taskError>>
       \/ Caught("waitForSelector")

\* lines 75-80: scroll to the bottom, then the settle delay
TaskScroll ==
    /\ tpc = "scroll"
    /\ UNCHANGED mgrVars
    /\ \/ /\ tpc' = "count"
          /\ UNCHANGED <<taskUrl, i, previousCommentCount, sameCountIterations,
                         currentCommentCount, hist, exit, altScrolls, failedAt, comments,
                         taskResult, taskError>>
       \/ Caught("scroll")

\* lines 83-87: the count of marker elements is read
TaskCountFrom(values) ==
    /\ tpc = "count"
    /\ UNCHANGED mgrVars
    /\ \/ \E n \in values :
            /\ currentCommentCount' = n
            /\ hist' = Remember(hist, n)
            /\ tpc' = "expand"
            /\ UNCHANGED <<taskUrl, i, previousCommentCount, sameCountIterations, exit,
                           altScrolls, failedAt, comments, taskResult, taskError>>
       \/ Caught("count")

TaskCount == TaskCountFrom(CountValues)

\* lines 90-130: the "load more" buttons are clicked (and, if any was, the
\* settle delay passes); then the stability decision; then either the loop is
\* left, or the 80% scroll is issued, or the next iteration starts
TaskExpand ==
    /\ tpc = "expand"
    /\ UNCHANGED mgrVars
    /\ \/ /\ \E clickedLoadMore \in BOOLEAN : TRUE
          /\ sameCountIterations' =
                NextSame(currentCommentCount, previousCommentCount, sameCountIterations)
          /\ previousCommentCount' = NextPrevious(currentCommentCount, previousCommentCount)
          /\ IF currentCommentCount = previousCommentCount
                /\ IsStable(NextSame(currentCommentCount, previousCommentCount,
                                     sameCountIterations))
             THEN tpc' = "content" /\ exit' = "stable" /\ i' = i
             ELSE IF IsAltIteration(i)
                  THEN tpc' = "alt" /\ exit' = exit /\ i' = i
                  ELSE LoopHead(i + 1)
          /\ UNCHANGED <<taskUrl, currentCommentCount, hist, altScrolls, failedAt,
                         comments, taskResult, taskError>>
       \/ Caught("loadMore")

\* lines 124-130: scroll to 80% of the height, a one second delay, then i++
TaskAlt ==
    /\ tpc = "alt"
    /\ UNCHANGED mgrVars
    /\ \/ /\ altScrolls' = altScrolls \cup {i + 1}
          /\ LoopHead(i + 1)
          /\ UNCHANGED <<taskUrl, previousCommentCount, sameCountIterations,
                         currentCommentCount, hist, failedAt, comments, taskResult,
                         taskError>>
       \/ Caught("altScroll")

\* lines 136-137: the page markup is read and written to a file
TaskContent ==
    /\ tpc = "content"
    /\ UNCHANGED mgrVars
    /\ \/ /\ tpc' = "extract"
          /\ UNCHANGED <<taskUrl, i, previousCommentCount, sameCountIterations,
                         currentCommentCount, hist, exit, altScrolls, failedAt, comments,
                         taskResult, taskError>>
       \/ Caught("content")

\* lines 140-202: the extraction runs in the page on the document as it is
\* now, and the listings are returned
TaskExtractFrom(docs) ==
    /\ tpc = "extract"
    /\ UNCHANGED mgrVars
    /\ \/ \E doc \in docs :
            /\ comments' = doc
            /\ taskResult' = ScrapeSuccess(ExtractListings(doc))
            /\ tpc' = "done"
            /\ UNCHANGED <<taskUrl, i, previousCommentCount, sameCountIterations,
                           currentCommentCount, hist, exit, altScrolls, failedAt, taskError>>
       \/ Caught("extract")

TaskExtract == TaskExtractFrom(Documents)
\* the same step on the larger set of documents
TaskExtractLong == TaskExtractFrom(LongDocuments)

TaskInit ==
    /\ tpc = "start"
    /\ taskUrl \in {NoUrl, TargetUrl}
    /\ i = 0
    /\ previousCommentCount = 0
    /\ sameCountIterations = 0
    /\ currentCommentCount = 0
    /\ hist = <<>>
    /\ exit = "none"
    /\ altScrolls = {}
    /\ failedAt = ""
    /\ comments = <<>>
    /\ taskResult = NoResult
    /\ taskError = NoErr

TaskIdle ==
    /\ tpc = "idle"
    /\ taskUrl = NoUrl
    /\ i = 0
    /\ previousCommentCount = 0
    /\ sameCountIterations = 0
    /\ currentCommentCount = 0
    /\ hist = <<>>
    /\ exit = "none"
    /\ altScrolls = {}
    /\ failedAt = ""
    /\ comments = <<>>
    /\ taskResult = NoResult
    /\ taskError = NoErr

TaskNext ==
    \/ TaskStart
    \/ TaskGoto
    \/ TaskCookie
    \/ TaskWait
    \/ TaskScroll
    \/ TaskCount
    \/ TaskExpand
    \/ TaskAlt
    \/ TaskContent
    \/ TaskExtract

\* ------------------------------------------------------------------ executeTask: the actions
\* The task functions of the repository: scrapeRedditJobListings (the
\* controller's) and the startup no-op `async (page) => ({ success: true })`
\* (src/src/server.ts:43); and, executeTask accepting any task function,
\* "custom": one that returns a result, throws an untyped Error or throws a
\* typed ValidationError.
TaskFns == {"scrape", "init", "custom"}
InitTaskResult == [success |-> TRUE, hasData |-> FALSE, data |-> <<>>, error |-> ""]

ExecOptions(fn) ==
    [url : IF fn = "scrape" THEN {NoUrl, TargetUrl} ELSE {NoUrl}, releasePage : BOOLEAN]

\* the documents an executeTask run of the scrape task may find
ExecDocuments == {doc \in Documents : Len(doc) <= 1}

\* an executeTask call for id k is running
InFlight(k) ==
    \E d \in Calls : calls[d].op = "executeTask" /\ calls[d].pc # "done" /\ calls[d].id = k

\* executeTask(taskId, taskFn, url, options), up to its first await (21-31).
\* Each call slot runs one executeTask call: NumCalls bounds their number.
ExecuteTask(c, k, fn, url, opts) ==
    /\ UNCHANGED taskVars
    /\ calls[c].pc = "idle" /\ \A d \in 1..(c - 1) : calls[d].pc # "idle"
    /\ LET f == [Begin(c, "executeTask", k) EXCEPT !.fn = fn, !.url = url, !.opts = opts,
                                                   !.shared = InFlight(k)]
       IN  Step(c, f, GetPageBegin(f))
    /\ UNCHANGED <<browser, pagePool, procState, pageState, pageProc, pageTask>>

\* `await page.goto(url, ...)` resolves and taskFn is invoked, or it rejects
\* and a NavigationError is thrown (lines 34-48).
ExecuteTaskGoto(c) ==
    /\ UNCHANGED taskVars
    /\ calls[c].pc = "goto"
    /\ \/ Resumed(c, [calls[c] EXCEPT !.pc = "task", !.task = "running", !.nav = "ok"])
       \/ Resumed(c, ExecCatch([calls[c] EXCEPT !.nav = "failed"],
                               NavigationFailed(calls[c])))
    /\ UNCHANGED <<browser, pagePool, procState, pageState, pageProc, pageTask>>

\* `await taskFn(page, options)` settles (line 48): the task function returns
\* its result or throws, as scrapeRedditJobListings and the startup task do.
ExecuteTaskRan(c) ==
    /\ UNCHANGED taskVars
    /\ calls[c].pc = "task"
    /\ LET f == [calls[c] EXCEPT !.task = "finished"]
       IN  \/ /\ f.fn = "init"
              /\ Resumed(c, ExecReturn(f, InitTaskResult))
           \/ /\ f.fn = "scrape" /\ f.opts.url = NoUrl
              /\ Resumed(c, ExecReturn(f, ScrapeMissingUrl))
           \/ /\ f.fn = "scrape" /\ f.opts.url # NoUrl
              /\ \E doc \in ExecDocuments :
                    Resumed(c, ExecReturn(f, ScrapeSuccess(ExtractListings(doc))))
           \/ /\ f.fn = "scrape" /\ f.opts.url # NoUrl
              /\ Resumed(c, ExecCatch(f, ScrapeFailure(f.opts.url, "Error")))
           \/ /\ f.fn = "custom"
              /\ \/ Resumed(c, ExecReturn(f, InitTaskResult))
                 \/ Resumed(c, ExecCatch(f, RawError))
                 \/ Resumed(c, ExecCatch(f, ValidationError("field" :> "input")))
    /\ UNCHANGED <<browser, pagePool, procState, pageState, pageProc, pageTask>>

\* ------------------------------------------------------------------ executeTask running the task function
\* One executeTask call whose scrapeRedditJobListings invocation runs step by
\* step: the task function's variables are those of that invocation.
RunCounts == {5, 8}
TaskCountRun == TaskCountFrom(RunCounts)
TaskExtractRun == TaskExtractFrom(ExecDocuments)

\* `taskFn(page, options)` is called (line 48): scrapeRedditJobListings starts
RunTaskInvoked(c) ==
    /\ calls[c].pc = "task" /\ calls[c].fn = "scrape"
    /\ tpc = "idle"
    /\ tpc' = "start"
    /\ taskUrl' = calls[c].opts.url
    /\ UNCHANGED <<i, previousCommentCount, sameCountIterations, currentCommentCount,
                   hist, exit, altScrolls, failedAt, comments, taskResult, taskError>>
    /\ UNCHANGED mgrVars

\* its promise settles: `return result` or the catch (lines 48-59)
RunTaskSettled(c) ==
    /\ calls[c].pc = "task" /\ calls[c].fn = "scrape"
    /\ tpc \in {"done", "failed"}
    /\ LET f == [calls[c] EXCEPT !.task = "finished"]
       IN  IF tpc = "done"
           THEN Resumed(c, ExecReturn(f, taskResult))
           ELSE Resumed(c, ExecCatch(f, taskError))
    /\ UNCHANGED taskVars
    /\ UNCHANGED <<browser, pagePool, procState, pageState, pageProc, pageTask>>

\* the other task functions settle as in ExecuteTaskRan
RunTaskOther(c) == calls[c].fn # "scrape" /\ ExecuteTaskRan(c)

\* RedditController.getJobListings (src/src/controllers/reddit-controller.ts:
\* 37-82): the status of the response to executeTask's outcome.
StatusOk == 200
StatusBadRequest == 400
StatusServerError == 500

Respond(out, err, result) ==
    IF out = "value"
    THEN IF ~result.success \/ ~result.hasData THEN StatusServerError ELSE StatusOk
    ELSE IF err.name = "ValidationError" THEN StatusBadRequest
         ELSE StatusServerError

MgrInit ==
    /\ browser = 0
    /\ pagePool = <<>>
    /\ procState = [q \in Procs |-> "none"]
    /\ pageState = [p \in Pages |-> "none"]
    /\ pageProc = [p \in Pages |-> 0]
    /\ pageTask = [p \in Pages |-> ""]
    /\ calls = [c \in Calls |-> IdleFrame]
    /\ held = [k \in TaskIds |-> 0]

\* ------------------------------------------------------------------ specifications
\* Spec: calls of the BrowserManager's methods, interleaved at their awaits.
Init == MgrInit /\ TaskIdle

Next ==
    \E c \in Calls :
        \/ InitBrowser(c)
        \/ InitBrowserLaunched(c)
        \/ \E k \in TaskIds : GetPage(c, k)
        \/ GetPageNewPage(c)
        \/ \E k \in TaskIds : ReleasePage(c, k)
        \/ ReleasePageClosed(c)
        \/ CloseBrowser(c)
        \/ CloseBrowserPageClosed(c)
        \/ CloseBrowserClosed(c)

Spec == Init /\ [][Next]_vars

\* SpecSeq: the same methods called one after another: a call starts only
\* when no other call is running.
SeqNext ==
    \E c \in Calls :
        \/ Quiescent /\ InitBrowser(c)
        \/ InitBrowserLaunched(c)
        \/ \E k \in TaskIds : Quiescent /\ GetPage(c, k)
        \/ GetPageNewPage(c)
        \/ \E k \in TaskIds : Quiescent /\ ReleasePage(c, k)
        \/ ReleasePageClosed(c)
        \/ Quiescent /\ CloseBrowser(c)
        \/ CloseBrowserPageClosed(c)
        \/ CloseBrowserClosed(c)

SpecSeq == Init /\ [][SeqNext]_vars

\* SpecExec: executeTask calls, interleaved at their awaits.
ExecNext ==
    \E c \in Calls :
        \/ \E k \in TaskIds, fn \in TaskFns, url \in {NoUrl, TargetUrl} :
                \E opts \in ExecOptions(fn) : ExecuteTask(c, k, fn, url, opts)
        \/ InitBrowserLaunched(c)
        \/ GetPageNewPage(c)
        \/ ExecuteTaskGoto(c)
        \/ ExecuteTaskRan(c)
        \/ ReleasePageClosed(c)

SpecExec == Init /\ [][ExecNext]_vars

\* SpecLoop: the task function alone, on a page it was handed.
LoopInit == MgrInit /\ TaskInit

SpecLoop == LoopInit /\ [][TaskNext]_vars

\* SpecRun: one executeTask call from its start to its completion, the scrape
\* task running step by step inside it.  Every operation the call awaits
\* settles (puppeteer's timeouts): whenever a step is possible one is taken.
RunNext ==
    \E c \in {1} :
        \/ \E k \in TaskIds, fn \in TaskFns, url \in {NoUrl, TargetUrl} :
                \E opts \in ExecOptions(fn) : ExecuteTask(c, k, fn, url, opts)
        \/ InitBrowserLaunched(c)
        \/ GetPageNewPage(c)
        \/ ExecuteTaskGoto(c)
        \/ RunTaskInvoked(c)
        \/ TaskStart
        \/ TaskGoto
        \/ TaskCookie
        \/ TaskWait
        \/ TaskScroll
        \/ TaskCountRun
        \/ TaskExpand
        \/ TaskAlt
        \/ TaskContent
        \/ TaskExtractRun
        \/ RunTaskSettled(c)
        \/ RunTaskOther(c)
        \/ ReleasePageClosed(c)

SpecRun == Init /\ [][RunNext]_vars /\ WF_vars(RunNext)

\* SpecExtract: the extraction alone, applied to the documents of
\* LongDocuments, from the state in which the loop left on four equal counts.
ExtractInit ==
    /\ MgrInit
    /\ tpc = "extract"
    /\ taskUrl = TargetUrl
    /\ i = 3
    /\ previousCommentCount = 8
    /\ sameCountIterations = 3
    /\ currentCommentCount = 8
    /\ hist = <<8, 8, 8, 8>>
    /\ exit = "stable"
    /\ altScrolls = {}
    /\ failedAt = ""
    /\ comments = <<>>
    /\ taskResult = NoResult
    /\ taskError = NoErr

ExtractNext == TaskExtractLong

SpecExtract == ExtractInit /\ [][ExtractNext]_vars

\* ------------------------------------------------------------------ claims
Returned(c, op) == calls[c].op = op /\ calls[c].pc = "done"

\* C1: in every reachable state a task id has at most one live (opened and not
\* closed) page, and two getPage calls for one id whose returned pages are
\* both still open returned the same page.
C1_OneLivePagePerTask ==
    /\ \A k \in TaskIds : Cardinality(LivePages(k)) <= 1
    /\ \A c, d \in Calls :
        ( /\ Returned(c, "getPage") /\ Returned(d, "getPage")
          /\ calls[c].id = calls[d].id
          /\ calls[c].ret # 0 /\ calls[d].ret # 0
          /\ pageState[calls[c].ret] = "open" /\ pageState[calls[d].ret] = "open" )
        => calls[c].ret = calls[d].ret

\* C2: in every reachable state at most one browser process is live or being
\* launched: no launch starts while another is in progress or a process runs.
C2_OneBrowserProcess ==
    Cardinality(LiveProcs) + Cardinality({c \in Calls : calls[c].pc = "launching"}) <= 1

\* C3: a getPage(k) that follows a getPage(k) which returned a page, with no
\* release of k in between (neither releasePage(k) nor closeBrowser ran),
\* returns that same page without an error and leaves the pool size as it was.
C3_SameIdSamePage ==
    \A c \in Calls :
        (Returned(c, "getPage") /\ calls[c].h0 # 0)
        => /\ calls[c].err.name = ""
           /\ calls[c].ret = calls[c].h0
           /\ calls[c].n1 = calls[c].n0
           /\ PoolSize = calls[c].n0

C3_Witness ==
    \E c \in Calls :
        /\ Returned(c, "getPage")
        /\ calls[c].h0 # 0
        /\ calls[c].ret = calls[c].h0
        /\ PoolSize = NumIds

\* C5: when closeBrowser has returned from closing a running process (the
\* termination itself not failing), the pool is empty and the handle is
\* cleared, so that getPage(k) for any k would launch a process anew.
C5_CloseAllEmptiesPool ==
    \A c \in Calls :
        (Returned(c, "closeBrowser") /\ calls[c].hadBrowser /\ ~calls[c].procCloseFailed)
        => /\ PoolSize = 0
           /\ browser = 0
           /\ \A k \in TaskIds : GetPageBegin(Begin(c, "getPage", k)).pc = "launching"

\* C6: once releasePage(k) has returned for a mapped k, the page is closed, k
\* is no longer mapped, and no error was raised.
C6_ReleaseUnmaps ==
    \A c \in Calls :
        (Returned(c, "releasePage") /\ calls[c].p # 0)
        => /\ calls[c].err.name = ""
           /\ pageState[calls[c].p] = "closed"
           /\ ~PoolHas(calls[c].id)

ExecReturned(c) == Returned(c, "executeTask")

\* C4: an executeTask call that acquired a page and has releasePage set
\* invokes releasePage exactly once, not while the task function runs; a call
\* without a page or without releasePage invokes no release; and what the
\* call returns or raises is the outcome it had on entering the cleanup, even
\* when the release's close failed.
C4_ReleaseOnceAfterTask ==
    \A c \in Calls :
        /\ calls[c].op = "executeTask" => calls[c].rel <= 1 /\ calls[c].relAfterTask
        /\ (calls[c].op = "executeTask" /\ calls[c].pc = "closing")
           => calls[c].task # "running" /\ calls[c].rel = 1
        /\ ExecReturned(c) =>
            /\ calls[c].rel = (IF calls[c].opts.releasePage /\ calls[c].page # 0 THEN 1 ELSE 0)
            /\ calls[c].out \in {"value", "error"}
            /\ [out |-> calls[c].out, err |-> calls[c].err, result |-> calls[c].result]
               = calls[c].primary
            /\ calls[c].out = "value" => calls[c].err.name = ""
            /\ calls[c].out = "error" => IsPuppeteerError(calls[c].err)

C4_Witness ==
    \E c \in Calls :
        /\ ExecReturned(c)
        /\ calls[c].rel = 1
        /\ calls[c].pageCloseFailed
        /\ calls[c].task = "finished"
        /\ calls[c].out = "value"
        /\ calls[c].result.success

\* C10: when the scrape task fails inside executeTask called as the
\* controller calls it (executor url empty, target url in options.url), the
\* error executeTask raises is a ScrapingError whose context carries the
\* target url, the original cause and the taskId.
C10_ScrapeFailureKeepsUrl ==
    \A c \in Calls :
        ( /\ ExecReturned(c)
          /\ calls[c].fn = "scrape" /\ calls[c].url = NoUrl /\ calls[c].opts.url = TargetUrl
          /\ calls[c].task = "finished" /\ calls[c].out = "error" )
        => /\ calls[c].err.name = "ScrapingError"
           /\ {"url", "originalError", "taskId"} \subseteq DOMAIN calls[c].err.ctx
           /\ calls[c].err.ctx["taskId"] = calls[c].id
           /\ calls[c].err.ctx["url"] = TargetUrl

\* the number of counts the loop has read: one per iteration begun, once the
\* iteration is past its count step
CountsRead ==
    IF exit = "ceiling" THEN i
    ELSE IF \/ tpc \in {"expand", "alt"}
            \/ exit = "stable"
            \/ (tpc = "failed" /\ failedAt \in {"loadMore", "altScroll"})
         THEN i + 1
         ELSE i

\* hist holds every count read so far, all equal and positive
ConstantPositive ==
    /\ hist # <<>>
    /\ Len(hist) = CountsRead
    /\ hist[1] > 0
    /\ \A n \in 1..Len(hist) : hist[n] = hist[1]

\* C7 as stated: with the same positive count read on every iteration from
\* iteration 1, the loop is left by the stability break at iteration 3.
C7_StableAtThree ==
    (ConstantPositive /\ exit = "stable") => i + 1 = 3

\* C7 as amended: with the same positive count read on every iteration from
\* iteration 1, the loop is left by the stability break at iteration 4 exactly
\* (the first count differs from the initial 0), never at the ceiling, and no
\* fifth iteration starts.
C7_StableAtFour ==
    ConstantPositive =>
        /\ exit # "ceiling"
        /\ exit = "stable" => (i + 1 = 4 /\ Len(hist) = 4)
        /\ Len(hist) = 4 => tpc \notin {"scroll", "count", "alt"}
        /\ (Len(hist) = 4 /\ tpc \in {"content", "extract", "done"}) => exit = "stable"

C7_Witness ==
    /\ exit = "stable"
    /\ hist = <<8, 8, 8, 8>>
    /\ tpc = "done"

LastCounts(n) == {hist[m] : m \in (Len(hist) - n + 1)..Len(hist)}

\* C8: the loop is left by the stability break only when the count was
\* unchanged on 3 consecutive iterations; a decision on a count that differs
\* from the recorded one resets the stability counter to 0, records the new
\* count and does not leave the loop; and after the counts 5, 8, 8, 8, 12 the
\* loop is still running at the end of iteration 5.
C8_StableOnlyAfterThree ==
    /\ [](exit = "stable" =>
            /\ sameCountIterations = 3
            /\ Len(hist) >= 3
            /\ LastCounts(3) = {previousCommentCount}
            /\ (i >= 3 => LastCounts(4) = {previousCommentCount}))
    /\ []((hist = <<5, 8, 8, 8, 12>> /\ CountsRead = 5) =>
            /\ exit = "none"
            /\ (tpc \notin {"expand", "failed"} =>
                    /\ i = 5
                    /\ tpc \in {"scroll", "count"}
                    /\ sameCountIterations = 0
                    /\ previousCommentCount = 12))
    /\ [][(tpc = "expand" /\ tpc' # "failed" /\ currentCommentCount # previousCommentCount)
            => /\ sameCountIterations' = 0
               /\ previousCommentCount' = currentCommentCount
               /\ exit' = "none"]_vars

C8_Witness ==
    /\ hist = <<5, 8, 8, 8, 12>>
    /\ CountsRead = 5
    /\ i = 5
    /\ tpc = "scroll"
    /\ previousCommentCount = 12

\* C9: the loop is left at the ceiling only after exactly 15 iterations
\* without a stability break; extraction then runs, a failure there can only
\* come from a page operation of the extraction, and when the task function
\* returns it returns success with the records extracted from the document.
C9_CeilingStillExtracts ==
    /\ tpc \in {"scroll", "count", "expand", "alt"} => (i < maxScrolls /\ exit = "none")
    /\ tpc \in {"content", "extract"} => exit \in {"stable", "ceiling"}
    /\ exit = "ceiling" =>
        /\ i = maxScrolls
        /\ sameCountIterations < StableThreshold
        /\ tpc \in {"content", "extract", "done", "failed"}
        /\ tpc = "failed" => failedAt \in {"content", "extract"}
        /\ tpc = "done" => taskResult = ScrapeSuccess(ExtractListings(comments))

C9_Witness ==
    /\ exit = "ceiling"
    /\ i = 15
    /\ tpc = "done"
    /\ taskResult.success
    /\ Len(taskResult.data) = MaxComments

ExecFailed(c) == calls[c].op = "executeTask" /\ calls[c].out = "error"

\* C11: every error executeTask raises is a typed error whose context holds
\* taskId (the call's id) and url; when the error its catch received was
\* already typed, the raised error has the same kind and every context key
\* the received error had; when it was untyped, the raised error is of the
\* generic kind.
C11_ErrorsStayTyped ==
    \A c \in Calls :
        ExecFailed(c) =>
            /\ IsPuppeteerError(calls[c].err)
            /\ {"taskId", "url"} \subseteq DOMAIN calls[c].err.ctx
            /\ calls[c].err.ctx["taskId"] = calls[c].id
            /\ IF IsPuppeteerError(calls[c].thrown)
               THEN /\ calls[c].err.name = calls[c].thrown.name
                    /\ DOMAIN calls[c].thrown.ctx \subseteq DOMAIN calls[c].err.ctx
               ELSE calls[c].err.name = "PuppeteerError"

C11_Witness ==
    \E c, d \in Calls :
        /\ ExecReturned(c) /\ calls[c].thrown = RawError
        /\ calls[c].err.name = "PuppeteerError"
        /\ ExecReturned(d) /\ calls[d].thrown.name = "ValidationError"
        /\ calls[d].err.name = "ValidationError"
        /\ "field" \in DOMAIN calls[d].err.ctx

\* C12: when executeTask was given a non-empty url and the navigation to it
\* failed, the call raises a NavigationError whose context holds the call's
\* taskId and url, and the task function is not invoked; with a non-empty
\* url the task function only runs after the navigation succeeded.
C12_NavigationFailure ==
    \A c \in Calls :
        calls[c].op = "executeTask" =>
            /\ calls[c].nav = "failed" =>
                /\ calls[c].url # NoUrl
                /\ calls[c].task = "notrun"
                /\ calls[c].out = "error"
                /\ calls[c].err.name = "NavigationError"
                /\ {"taskId", "url", "originalError"} \subseteq DOMAIN calls[c].err.ctx
                /\ calls[c].err.ctx["taskId"] = calls[c].id
                /\ calls[c].err.ctx["url"] = calls[c].url
            /\ (calls[c].url # NoUrl /\ calls[c].task # "notrun") => calls[c].nav = "ok"

C12_Witness ==
    \E c \in Calls :
        /\ ExecReturned(c)
        /\ calls[c].nav = "failed"
        /\ calls[c].url = TargetUrl
        /\ calls[c].fn = "scrape"
        /\ calls[c].rel = 1

\* C13: an executeTask call that runs the scrape task without options.url
\* ends in a ValidationError, and the controller answers that outcome with
\* status 400.
C13_MissingInputIsValidation ==
    \A c \in Calls :
        ( /\ ExecReturned(c)
          /\ calls[c].fn = "scrape" /\ calls[c].opts.url = NoUrl
          /\ calls[c].task = "finished" )
        => /\ calls[c].out = "error"
           /\ calls[c].err.name = "ValidationError"
           /\ Respond(calls[c].out, calls[c].err, calls[c].result) = StatusBadRequest

\* C20: an executeTask call whose getPage failed (the launch or the new page)
\* received a BrowserError carrying its task id and the pool size at the
\* failure, raises it with the Browser kind and with taskId and url added,
\* runs neither the task function nor a release, and no step of a call that
\* holds no page changes the pool.
C20_GetPageFailure ==
    /\ [](\A c \in Calls :
            (ExecFailed(c) /\ calls[c].page = 0) =>
                /\ calls[c].thrown.name = "BrowserError"
                /\ {"taskId", "poolSize", "originalError"} \subseteq DOMAIN calls[c].thrown.ctx
                /\ calls[c].thrown.ctx["taskId"] = calls[c].id
                /\ calls[c].err.name = "BrowserError"
                /\ DOMAIN calls[c].err.ctx = DOMAIN calls[c].thrown.ctx \cup {"url"}
                /\ calls[c].err.ctx["taskId"] = calls[c].id
                /\ calls[c].err.ctx["url"] = calls[c].url
                /\ calls[c].err.ctx["poolSize"] = calls[c].thrown.ctx["poolSize"]
                /\ calls[c].rel = 0
                /\ calls[c].task = "notrun"
                /\ calls[c].pc = "done")
    /\ [][\A c \in Calls :
            ( /\ calls'[c] # calls[c]
              /\ calls'[c].op = "executeTask"
              /\ calls'[c].page = 0 )
            => /\ pagePool' = pagePool
               /\ ExecFailed(c)' => calls'[c].thrown.ctx["poolSize"] = PoolSize]_vars

C20_Witness ==
    \E c \in Calls :
        /\ ExecReturned(c)
        /\ calls[c].page = 0
        /\ calls[c].out = "error"
        /\ calls[c].opts.releasePage
        /\ calls[c].thrown.ctx["poolSize"] = 1
        /\ PoolSize = 1
        /\ ~PoolHas(calls[c].id)

\* the step in which a call of op begins in slot c
Begins(c, op) == Vacant(c) /\ calls'[c] # calls[c] /\ calls'[c].op = op

\* C14: a releasePage(k) for a k that is not mapped returns at once without
\* an error, picks no page to close, and leaves the pool, the pages, the
\* processes and the handle as they were.
C14_ReleaseUnmappedNoOp ==
    [][\A c \in Calls :
        (Begins(c, "releasePage") /\ ~PoolHas(calls'[c].id)) =>
            /\ calls'[c].pc = "done"
            /\ calls'[c].err = NoErr
            /\ calls'[c].p = 0
            /\ calls'[c].rel = 1
            /\ pagePool' = pagePool
            /\ pageState' = pageState
            /\ procState' = procState
            /\ browser' = browser]_vars

C14_Witness ==
    \E c \in Calls :
        /\ Returned(c, "releasePage")
        /\ calls[c].p = 0
        /\ calls[c].rel = 1
        /\ ~PoolHas(calls[c].id)
        /\ PoolSize = 1
        /\ browser # 0

\* C15: a closeBrowser that begins while no process is running returns at
\* once and changes nothing; and when closeBrowser is called right after a
\* closeBrowser returned, the second call leaves the handle, the process and
\* the pool as the first call left them.
C15_CloseBrowserIdempotent ==
    /\ [][\A c \in Calls :
            (Begins(c, "closeBrowser") /\ browser = 0) =>
                /\ calls'[c].pc = "done"
                /\ ~calls'[c].hadBrowser
                /\ pagePool' = pagePool
                /\ pageState' = pageState
                /\ procState' = procState
                /\ browser' = browser]_vars
    /\ [](\A c \in Calls :
            (Returned(c, "closeBrowser") /\ calls[c].again) =>
                /\ browser = calls[c].b0
                /\ PoolSize = calls[c].n0
                /\ calls[c].b0 # 0 => procState[calls[c].b0] = "live")

\* the positions of the marker elements with at least 3 paragraph blocks
Qualifying(doc) == {n \in 1..Len(doc) : Len(doc[n].paragraphs) >= 3}
\* the k-th smallest member of S
Nth(S, k) == CHOOSE n \in S : Cardinality({m \in S : m < n}) = k - 1
EndsWith(s, t) == Len(t) <= Len(s) /\ SubSeq(s, Len(s) - Len(t) + 1, Len(s)) = t
Extracted == tpc = "done" /\ taskResult.success

\* C16: the extraction returns one record for each marker element with at
\* least 3 paragraph blocks and none for the others, in document order (the
\* k-th record carries the text and author of the k-th such element), and
\* every record's permalink is non-empty and ends with the record's
\* non-empty identifier.
C16_ExtractionFilter ==
    Extracted =>
        /\ Len(taskResult.data) = Cardinality(Qualifying(comments))
        /\ \A k \in 1..Len(taskResult.data) :
            LET el == comments[Nth(Qualifying(comments), k)]
                rec == taskResult.data[k]
            IN  /\ rec.content = JoinParagraphs(el.paragraphs)
                /\ rec.author = (IF el.author = "" THEN "Unknown" ELSE el.author)
                /\ rec.postedAt = el.time
                /\ rec.id # <<>>
                /\ rec.url # <<>>
                /\ Len(rec.url) > Len(rec.id)
                /\ EndsWith(rec.url, rec.id)

C16_Witness ==
    /\ Extracted
    /\ Len(comments) = 5
    /\ Cardinality(Qualifying(comments)) = 3
    /\ Len(taskResult.data) = 3
    /\ Len(comments[1].paragraphs) < 3
    /\ Len(comments[5].paragraphs) >= 3

\* the marker element the k-th record was extracted from, and its index
SourceIndex(k) == Nth(Qualifying(comments), k) - 1
Source(k) == comments[SourceIndex(k) + 1]

\* C17: a record's identifier is the captured group when its element's
\* native id matches the pattern, and otherwise "comment-" followed by the
\* element's index among all marker elements; two records with synthetic
\* identifiers never share one, and a synthetic identifier never equals a
\* captured one.
C17_DerivedIds ==
    Extracted =>
        /\ Len(taskResult.data) = Cardinality(Qualifying(comments))
        /\ \A k \in 1..Len(taskResult.data) :
            taskResult.data[k].id =
                IF IdMatches(Source(k)) THEN AlnumPrefix(Source(k).body)
                ELSE <<"comment", "-", ToString(SourceIndex(k))>>
        /\ \A j, k \in 1..Len(taskResult.data) :
            (j # k /\ ~IdMatches(Source(j)) /\ ~IdMatches(Source(k)))
            => taskResult.data[j].id # taskResult.data[k].id
        /\ \A j, k \in 1..Len(taskResult.data) :
            (~IdMatches(Source(j)) /\ IdMatches(Source(k)))
            => taskResult.data[j].id # taskResult.data[k].id

C17_Witness ==
    /\ Extracted
    /\ Len(taskResult.data) = 4
    /\ \E j, k, l \in 1..Len(taskResult.data) :
        /\ j # k
        /\ ~IdMatches(Source(j)) /\ Source(j).prefix = "t1_" /\ SourceIndex(j) = 1
        /\ ~IdMatches(Source(k)) /\ SourceIndex(k) > 1
        /\ IdMatches(Source(l)) /\ taskResult.data[l].id = <<"comment", "1">>

\* C18: when the wait for the first marker element fails, the task function
\* fails with a ScrapingError carrying its url, having run no scroll
\* iteration and no extraction; the wait is entered once, from the cookie
\* step, it is followed by the loop or by the failure, and nothing follows a
\* failure.
C18_WaitFailureFailsTask ==
    /\ [](failedAt = "waitForSelector" =>
            /\ tpc = "failed"
            /\ taskError.name = "ScrapingError"
            /\ taskError.ctx["url"] = taskUrl
            /\ i = 0
            /\ hist = <<>>
            /\ altScrolls = {}
            /\ exit = "none"
            /\ comments = <<>>
            /\ taskResult = NoResult)
    /\ [][tpc = "wait" =>
            /\ tpc' \in {"scroll", "failed"}
            /\ tpc' = "failed" => failedAt' = "waitForSelector"]_vars
    /\ [][tpc' = "wait" => tpc = "cookie"]_vars
    /\ [][tpc # "failed"]_vars

C18_Witness ==
    /\ tpc = "failed"
    /\ failedAt = "waitForSelector"
    /\ taskError.name = "ScrapingError"
    /\ taskUrl = TargetUrl

\* the iterations 3, 6, 9, 12, 15
Thirds == {n \in 1..maxScrolls : n % 3 = 0}

\* C19 as stated: the 80% scroll is performed on every third iteration the
\* loop performs, also on one at which the stability break ends the loop, and
\* on no other iteration.
C19_AltOnEveryThird ==
    /\ altScrolls \subseteq Thirds
    /\ \A n \in Thirds :
        (i >= n \/ (exit = "stable" /\ i + 1 = n)) => n \in altScrolls

\* C19 as amended: the 80% scroll is performed after the stability decision
\* of every third iteration that does not end the loop by the stability
\* break, iteration 15 before the ceiling included, and on no other
\* iteration; an iteration ended by the stability break performs none.
C19_AltOnEveryThirdContinued ==
    /\ altScrolls = {n \in Thirds : n <= i}
    /\ exit = "stable" => (i + 1) \notin altScrolls
    /\ exit = "ceiling" => altScrolls = {3, 6, 9, 12, 15}
    /\ tpc = "alt" => (i + 1 \in Thirds /\ exit = "none" /\ CountsRead = i + 1)

C19_Witness ==
    /\ exit = "stable"
    /\ i + 1 = 6
    /\ altScrolls = {3}
    /\ tpc = "done"

\* C21: when closeBrowser has returned from a call that found a process, it
\* tried to close every page that was pooled when it began, whether or not
\* some of those closes failed, and the handle is cleared, whether or not a
\* page close or the termination of the process failed.
C21_CloseBrowserBestEffort ==
    \A c \in Calls :
        (Returned(c, "closeBrowser") /\ calls[c].hadBrowser) =>
            /\ calls[c].tried = calls[c].pages0
            /\ browser = 0

\* C22: every executeTask call eventually completes (returns or raises); the
\* loop never reads more than 15 counts; and a completed call that acquired
\* a page with releasePage set has attempted its release.
C22_ExecuteTaskCompletes ==
    /\ \A c \in Calls : (calls[c].op = "executeTask") ~> (calls[c].pc = "done")
    /\ [](CountsRead <= 15 /\ i <= 15)
    /\ [](\A c \in Calls :
            (ExecReturned(c) /\ calls[c].opts.releasePage /\ calls[c].page # 0)
            => calls[c].rel = 1)

C22_Witness ==
    \E c \in Calls :
        /\ ExecReturned(c)
        /\ calls[c].fn = "scrape"
        /\ exit = "ceiling"
        /\ tpc = "done"
        /\ calls[c].out = "value"
        /\ calls[c].rel = 1

\* the executeTask calls have pairwise distinct task ids
DistinctIds ==
    \A c, d \in Calls :
        (c # d /\ calls[c].op = "executeTask" /\ calls[d].op = "executeTask")
        => calls[c].id # calls[d].id

\* C23: while the executeTask calls have pairwise distinct ids, a call that
\* navigates, runs its task function or awaits its release holds a page that
\* is open, was opened for its id and is mapped under its id; no two calls
\* hold the same page; and an id leaves the pool only in the step in which
\* the release of the call with that id completes.
C23_DistinctIdsIsolated ==
    /\ [](DistinctIds =>
            /\ \A c \in Calls :
                (calls[c].op = "executeTask" /\ calls[c].pc \in {"goto", "task", "closing"}) =>
                    /\ calls[c].page # 0
                    /\ pageState[calls[c].page] = "open"
                    /\ pageTask[calls[c].page] = calls[c].id
                    /\ PoolHas(calls[c].id)
                    /\ PoolGet(calls[c].id) = calls[c].page
            /\ \A c, d \in Calls :
                (c # d /\ calls[c].page # 0 /\ calls[d].page # 0)
                => calls[c].page # calls[d].page)
    /\ [][DistinctIds' =>
            \A k \in TaskIds :
                (PoolHas(k) /\ ~PoolHas(k)') =>
                    \E c \in Calls :
                        /\ calls[c].op = "executeTask" /\ calls[c].id = k
                        /\ calls[c].pc = "closing" /\ calls'[c].pc = "done"]_vars

C23_Witness ==
    /\ DistinctIds
    /\ \A c \in Calls : calls[c].op = "executeTask"
    /\ calls[1].pc = "task" /\ calls[2].pc = "closing"
    /\ calls[1].page # calls[2].page
    /\ PoolSize = 2

\* C24: in every reachable state a non-empty pool goes with a non-null
\* process handle.
C24_PoolImpliesHandle ==
    PoolSize > 0 => browser # 0

\* C25: a getPage call never returns a page on which a releasePage call is
\* awaiting the close.
C25_NoClosingPageHandedOut ==
    [][\A c \in Calls :
        ( /\ calls'[c] # calls[c]
          /\ calls'[c].op = "getPage" /\ calls'[c].pc = "done"
          /\ calls'[c].ret # 0 )
        => ~\E d \in Calls :
                /\ calls[d].op = "releasePage" /\ calls[d].pc = "closing"
                /\ calls[d].p = calls'[c].ret]_vars

\* C26: when every executeTask call with releasePage set began while no
\* other call with its id was in flight and no page close failed, then once
\* all calls have completed every id left in the pool is the id of a call
\* that ran with releasePage unset.
C26_PoolDoesNotGrow ==
    ( /\ \A c \in Calls : calls[c].op = "executeTask" => calls[c].pc = "done"
      /\ \A c \in Calls : ~calls[c].shared /\ ~calls[c].pageCloseFailed )
    => \A n \in 1..Len(pagePool) :
            \E d \in Calls :
                /\ calls[d].op = "executeTask"
                /\ ~calls[d].opts.releasePage
                /\ calls[d].page # 0
                /\ calls[d].id = pagePool[n].key

C26_Witness ==
    /\ \A c \in Calls : ExecReturned(c) /\ ~calls[c].shared /\ ~calls[c].pageCloseFailed
    /\ calls[1].opts.releasePage /\ calls[1].out = "error" /\ calls[1].rel = 1
    /\ calls[2].opts.releasePage /\ calls[2].out = "value" /\ calls[2].rel = 1
    /\ calls[1].id = calls[2].id
    /\ PoolSize = 0
====
